---- MODULE Spec2Model ----
(***************************************************************************)
(* A model of noma: normalizeMarkdown (the remark pipeline with the        *)
(* remarkRecursiveFormat plugin) and the command-line entry point.         *)
(*                                                                         *)
(* Text is a sequence of tokens: " " and "\n" are the whitespace           *)
(* characters, every other token stands for a run of non-blank characters. *)
(* The repository holds four revisions of normalizeMarkdown and two of the *)
(* command line; the variables variant and cli say which one runs.         *)
(***************************************************************************)
EXTENDS Integers, Sequences, FiniteSets, TLC

\* ------------------------------------------------------------------ bounds
MaxBlocks == 2
NumCalls == 2

\* ------------------------------------------------------------------ tokens
SP == " "
NL == "\n"
NoLang == "<null>"
Bullets == {"*", "-"}
\* A fence token Fn stands for a run of n backticks.
Fences == {"F3", "F4", "F5", "F6"}
ThrowTokens == {"ERR", "THROWN"}

FenceLen(f) ==
  CASE f = "F3" -> 3 [] f = "F4" -> 4 [] f = "F5" -> 5 [] OTHER -> 6

FenceOfLen(n) ==
  CASE n <= 3 -> "F3" [] n = 4 -> "F4" [] n = 5 -> "F5" [] OTHER -> "F6"

IsWs(tok) == tok \in {SP, NL}

\* ------------------------------------------------------------------ strings
RECURSIVE TrimStart(_)
TrimStart(t) ==
  IF t = <<>> THEN t
  ELSE IF IsWs(Head(t)) THEN TrimStart(Tail(t)) ELSE t

RECURSIVE TrimEnd(_)
TrimEnd(t) ==
  IF t = <<>> THEN t
  ELSE IF IsWs(t[Len(t)]) THEN TrimEnd(SubSeq(t, 1, Len(t) - 1)) ELSE t

\* String.prototype.trim: white space is removed from both ends.
Trim(t) == TrimEnd(TrimStart(t))

\* String.prototype.toLowerCase on a language tag.
ToLowerCase(s) ==
  CASE s = "MD" -> "md" [] s = "Markdown" -> "markdown" [] OTHER -> s

\* String.prototype.split on line feeds: the lines of a text.
SplitLines(t) ==
  LET nl == {i \in 1..Len(t) : t[i] = NL}
      \* the position of the k-th line feed (0 before the first, Len+1 after the last)
      at(k) == IF k = 0 THEN 0
               ELSE IF k > Cardinality(nl) THEN Len(t) + 1
               ELSE CHOOSE i \in nl : Cardinality({j \in nl : j <= i}) = k
  IN [k \in 1..(Cardinality(nl) + 1) |-> SubSeq(t, at(k - 1) + 1, at(k) - 1)]

RECURSIVE JoinWith(_, _)
JoinWith(ls, sep) ==
  IF ls = <<>> THEN <<>>
  ELSE IF Len(ls) = 1 THEN ls[1]
  ELSE ls[1] \o sep \o JoinWith(Tail(ls), sep)

\* ------------------------------------------------------------------ mdast
CodeNode(lang, value) ==
  [type |-> "code", lang |-> lang, value |-> value, spread |-> FALSE, items |-> <<>>]
ListNode(spread, items) ==
  [type |-> "list", lang |-> NoLang, value |-> <<>>, spread |-> spread, items |-> items]
LeafNode(type, value) ==
  [type |-> type, lang |-> NoLang, value |-> value, spread |-> FALSE, items |-> <<>>]

\* ------------------------------------------------------------------ remark-parse
IsBlank(l) == \A i \in 1..Len(l) : l[i] = SP
IsFenceOpen(l) == Len(l) \in {1, 2} /\ l[1] \in Fences
IsFenceClose(l, open) ==
  Len(l) = 1 /\ l[1] \in Fences /\ FenceLen(l[1]) >= FenceLen(open)
IsItem(l) == Len(l) >= 3 /\ l[1] \in Bullets /\ l[2] = SP
IsHtml(l) == TrimStart(l) # <<>> /\ Head(TrimStart(l)) = "<h>"
Throws(l) == \E i \in 1..Len(l) : l[i] \in ThrowTokens

\* The line closing the fence opened at line i, or one past the last line.
FenceEnd(ls, i) ==
  LET closers == {j \in (i + 1)..Len(ls) : IsFenceClose(ls[j], ls[i][1])}
  IN IF closers = {} THEN Len(ls) + 1
     ELSE CHOOSE j \in closers : \A k \in closers : j <= k

\* The literal text between the fence lines.
FenceValue(ls, i, j) ==
  LET last == IF j > Len(ls) /\ ls[Len(ls)] = <<>> THEN Len(ls) - 1 ELSE j - 1
  IN JoinWith(SubSeq(ls, i + 1, last), <<NL>>)

\* Block structure of the lines from i on. marker is the bullet of the list
\* the last node belongs to (NoLang when the last node is no list), gap says
\* whether a blank line was passed since the last node.
RECURSIVE ParseBlocks(_, _, _, _, _)
ParseBlocks(ls, i, acc, marker, gap) ==
  IF i > Len(ls) THEN acc
  ELSE LET l == ls[i] IN
    IF IsBlank(l) THEN ParseBlocks(ls, i + 1, acc, marker, TRUE)
    ELSE IF IsFenceOpen(l) THEN
      LET j == FenceEnd(ls, i)
          lang == IF Len(l) = 2 THEN l[2] ELSE NoLang
      IN ParseBlocks(ls, j + 1, Append(acc, CodeNode(lang, FenceValue(ls, i, j))),
                     NoLang, FALSE)
    ELSE IF IsItem(l) THEN
      IF marker = l[1] THEN
        LET n == Len(acc)
            grown == ListNode(acc[n].spread \/ gap,
                              Append(acc[n].items, SubSeq(l, 3, Len(l))))
        IN ParseBlocks(ls, i + 1, [acc EXCEPT ![n] = grown], marker, FALSE)
      ELSE ParseBlocks(ls, i + 1,
                       Append(acc, ListNode(FALSE, <<SubSeq(l, 3, Len(l))>>)),
                       l[1], FALSE)
    ELSE IF Throws(l) THEN
      ParseBlocks(ls, i + 1, Append(acc, LeafNode("throw", l)), NoLang, FALSE)
    ELSE IF IsHtml(l) THEN
      ParseBlocks(ls, i + 1, Append(acc, LeafNode("html", l)), NoLang, FALSE)
    ELSE
      ParseBlocks(ls, i + 1, Append(acc, LeafNode("paragraph", Trim(l))), NoLang, FALSE)

\* remark-parse: the tree of a text, or the failure it throws. A failure is
\* an Error carrying a message ("ERR") or a thrown value that is no Error
\* ("THROWN").
ParseResult(nodes) ==
  LET bad == {i \in 1..Len(nodes) : nodes[i].type = "throw"}
      first == CHOOSE i \in bad : \A k \in bad : i <= k
  IN IF bad = {} THEN [ok |-> TRUE, tree |-> nodes, kind |-> "none"]
     ELSE [ok |-> FALSE, tree |-> <<>>,
           kind |-> IF "ERR" \in {nodes[first].value[k] : k \in 1..Len(nodes[first].value)}
                    THEN "Error" ELSE "NonError"]

Parse(t) == ParseResult(ParseBlocks(SplitLines(t), 1, <<>>, NoLang, FALSE))

\* ------------------------------------------------------------------ remark-stringify
\* stringifyOptions.bullet; two lists in a row take the other marker in turn.
Bullet == "-"
BulletOther == "*"

LongestStreak(value) ==
  LET lens == {FenceLen(value[i]) : i \in {k \in 1..Len(value) : value[k] \in Fences}}
  IN IF lens = {} THEN 0 ELSE CHOOSE n \in lens : \A m \in lens : m <= n

RECURSIVE RenderItems(_, _, _)
RenderItems(items, bullet, sep) ==
  IF items = <<>> THEN <<>>
  ELSE <<bullet, SP>> \o Head(items)
       \o (IF Len(items) = 1 THEN <<>> ELSE sep \o RenderItems(Tail(items), bullet, sep))

\* Variation: the fence is three backticks whatever the content holds.
RenderCodeShortFence(node) ==
  <<"F3">> \o (IF node.lang = NoLang THEN <<>> ELSE <<node.lang>>) \o <<NL>>
  \o (IF node.value = <<>> THEN <<>> ELSE node.value \o <<NL>>) \o <<"F3">>

RenderCode(node) ==
  LET seq == FenceOfLen(LongestStreak(node.value) + 1)
  IN <<seq>> \o (IF node.lang = NoLang THEN <<>> ELSE <<node.lang>>) \o <<NL>>
     \o (IF node.value = <<>> THEN <<>> ELSE node.value \o <<NL>>) \o <<seq>>

RenderNode(node, bullet) ==
  CASE node.type = "code" -> RenderCode(node)
    [] node.type = "list" ->
         RenderItems(node.items, bullet, IF node.spread THEN <<NL, NL>> ELSE <<NL>>)
    [] OTHER -> node.value

RECURSIVE RenderFrom(_, _, _)
RenderFrom(tree, i, lastBullet) ==
  IF i > Len(tree) THEN <<>>
  ELSE LET node == tree[i]
           bullet == IF lastBullet = Bullet THEN BulletOther ELSE Bullet
           used == IF node.type = "list" THEN bullet ELSE NoLang
       IN RenderNode(node, bullet)
          \o (IF i = Len(tree) THEN <<NL>> ELSE <<NL, NL>>)
          \o RenderFrom(tree, i + 1, used)

\* remark-stringify with stringifyOptions: the text of a tree.
Stringify(tree) == RenderFrom(tree, 1, NoLang)

\* ------------------------------------------------------------------ processors
\* baseProcessor.processSync: parse and stringify, no plugin.
Compile(p) ==
  IF p.ok THEN [ok |-> TRUE, text |-> Stringify(p.tree), kind |-> "none"]
  ELSE [ok |-> FALSE, text |-> <<>>, kind |-> p.kind]

BaseProcessSync(value) == Compile(Parse(value))

\* ------------------------------------------------------------------ revisions
\* "recursive"  src/normalizeMarkdown.ts, lines 1-131
\* "plain"      src/normalizeMarkdown.ts, lines 133-214 (no plugin)
\* "part_000"   src/unnamed/part_000
\* "part_001"   src/unnamed/part_001
Variants == {"recursive", "plain", "part_000", "part_001"}

\* processor = unified().use(remarkParse).use(remarkRecursiveFormat)...
HasPlugin(v) == v # "plain"

\* The guard at the head of normalizeMarkdown. The "plain" revision returns
\* early on undefined or null only, which a string never is.
EarlyReturn(v, t) == IF v = "plain" THEN FALSE ELSE t = <<>>

\* src/normalizeMarkdown.ts: exact tag, and a value that is not the empty string.
IsFormatTarget(node) ==
  (node.lang = "markdown" \/ node.lang = "md") /\ node.value # <<>>

\* part_000: exact tag.
IsMarkdown(node) == node.lang = "markdown" \/ node.lang = "md"

\* part_001: the tag in lower case (an absent tag stays absent).
IsMarkdownLower(node) ==
  LET lang == IF node.lang = NoLang THEN NoLang ELSE ToLowerCase(node.lang)
  IN lang = "markdown" \/ lang = "md"

Targets(v, node) ==
  CASE v = "recursive" -> IsFormatTarget(node)
    [] v = "part_000" -> IsMarkdown(node)
    [] v = "part_001" -> IsMarkdownLower(node)
    [] OTHER -> FALSE

\* Variation: the message of the failure is dropped.
MessageDropped(kind) == "Unknown error"

\* e instanceof Error ? e.message : 'Unknown error'
MessageOf(kind) == IF kind = "Error" THEN "parse failure" ELSE "Unknown error"

\* console.error(`Failed to process nested markdown: ${message}`)
Diagnostic(message) ==
  [text |-> "Failed to process nested markdown: ", message |-> message]

\* Variation: the nested text is formatted by a processor that carries the
\* plugin, so the Markdown fences inside it are formatted too.
DeepFormatNode(node) ==
  IF node.type = "code" /\ (node.lang = "markdown" \/ node.lang = "md")
  THEN [node EXCEPT !.value = Trim(BaseProcessSync(node.value).text)]
  ELSE node
DeepCompile(p) ==
  IF p.ok THEN [ok |-> TRUE, kind |-> "none",
                text |-> Stringify([i \in 1..Len(p.tree) |-> DeepFormatNode(p.tree[i])])]
  ELSE [ok |-> FALSE, text |-> <<>>, kind |-> p.kind]
DeepFormat(value) == DeepCompile(Parse(value))

\* The formatter the visitor calls on a target's value.
NestedFormat(value) == BaseProcessSync(value)

\* What the visitor writes into node.value when the formatter returned.
Formatted(text) == Trim(text)

\* The catch block: the node is left alone.
OnFailure(node, kind) == node

\* The callback of visit(tree, 'code', ...) on one code node: the node after
\* it, whether the formatter was called and returned, and what was logged.
\* Variation: only an Error is handled, any other thrown value is rethrown.
CaughtErrorsOnly(kind) == kind = "Error"

\* catch (e): the clause takes whatever the try block throws.
Caught(kind) == TRUE

\* try { processSync; node.value = ... } catch (e) { console.error(...) }
TryFormat(node, r) ==
  IF r.ok
  THEN [node |-> [node EXCEPT !.value = Formatted(r.text)],
        called |-> TRUE, ok |-> TRUE, diag |-> <<>>, thrown |-> "none"]
  ELSE IF Caught(r.kind)
  THEN [node |-> OnFailure(node, r.kind), called |-> TRUE, ok |-> FALSE,
        diag |-> <<Diagnostic(MessageOf(r.kind))>>, thrown |-> "none"]
  ELSE [node |-> node, called |-> TRUE, ok |-> FALSE, diag |-> <<>>, thrown |-> r.kind]

Skipped(node) ==
  [node |-> node, called |-> FALSE, ok |-> TRUE, diag |-> <<>>, thrown |-> "none"]

Visitor(v, node) ==
  IF ~Targets(v, node) THEN Skipped(node)
  ELSE TryFormat(node, NestedFormat(node.value))

\* The next code node at or after position i (one past the end when none).
NextCode(tree, i) ==
  LET rest == {k \in i..Len(tree) : tree[k].type = "code"}
  IN IF rest = {} THEN Len(tree) + 1 ELSE CHOOSE k \in rest : \A m \in rest : k <= m

RECURSIVE Concat(_)
Concat(seqs) == IF seqs = <<>> THEN <<>> ELSE Head(seqs) \o Concat(Tail(seqs))

\* The whole transform, run to its end: the callback on every code node in
\* document order, up to the first one that throws; the tree after it, the
\* diagnostics, and what was thrown.
Transform(v, tree) ==
  LET r == [i \in 1..Len(tree) |->
              IF tree[i].type = "code" THEN Visitor(v, tree[i]) ELSE Skipped(tree[i])]
      stop == {i \in 1..Len(tree) : r[i].thrown # "none"}
      last == IF stop = {} THEN Len(tree)
              ELSE (CHOOSE i \in stop : \A k \in stop : i <= k) - 1
  IN [tree |-> [i \in 1..Len(tree) |-> IF i <= last THEN r[i].node ELSE tree[i]],
      diags |-> Concat([i \in 1..last |-> r[i].diag]),
      thrown |-> IF stop = {} THEN "none" ELSE r[last + 1].thrown]

\* processor.process on a text that was parsed: transform, then stringify.
Resolve(w) ==
  IF w.thrown = "none"
  THEN [ok |-> TRUE, text |-> Stringify(w.tree), diags |-> w.diags, kind |-> "none"]
  ELSE [ok |-> FALSE, text |-> <<>>, diags |-> w.diags, kind |-> w.thrown]

\* Variation: a failure of the top-level parse is swallowed.
ProcessSwallow(v, p) ==
  IF ~p.ok THEN [ok |-> TRUE, text |-> <<>>, diags |-> <<>>, kind |-> "none"]
  ELSE IF HasPlugin(v) THEN Resolve(Transform(v, p.tree))
  ELSE Resolve([tree |-> p.tree, diags |-> <<>>, thrown |-> "none"])

Process(v, p) ==
  IF ~p.ok THEN [ok |-> FALSE, text |-> <<>>, diags |-> <<>>, kind |-> p.kind]
  ELSE IF HasPlugin(v) THEN Resolve(Transform(v, p.tree))
  ELSE Resolve([tree |-> p.tree, diags |-> <<>>, thrown |-> "none"])

\* normalizeMarkdown run alone, from call to return.
Normalize(v, t) ==
  IF EarlyReturn(v, t) THEN [ok |-> TRUE, text |-> <<>>, diags |-> <<>>, kind |-> "none"]
  ELSE Process(v, Parse(t))

\* ------------------------------------------------------------------ inputs
Star == <<"*", SP, "a">>
Html == <<SP, "<h>">>
Para == <<"a">>
Err == <<"ERR">>
Thrown == <<"THROWN">>
Gap == <<NL, NL>>

\* A fenced block around content, with a fence longer than any inside it.
Fence(lang, content) ==
  LET f == FenceOfLen(LongestStreak(content) + 1)
  IN <<f>> \o (IF lang = NoLang THEN <<>> ELSE <<lang>>) \o <<NL>>
     \o (IF content = <<>> THEN <<>> ELSE content \o <<NL>>) \o <<f>>

\* Markdown fences nested d deep around a list.
RECURSIVE Nest(_)
Nest(d) == IF d = 0 THEN Star ELSE Fence("md", Star \o Gap \o Nest(d - 1))

MaxDepth == 2

Blocks ==
  {Err}
  \cup {Fence(lang, Star) : lang \in {"MD", "py", NoLang}}
  \cup {Fence("md", c) : c \in {<<>>, <<SP>>, Err, Html, Fence("md", Err)}}
  \cup {Fence("markdown", Thrown)}
  \cup {Nest(d) : d \in 1..MaxDepth}

RECURSIVE DocsOfLen(_)
DocsOfLen(n) ==
  IF n = 0 THEN {<<>>}
  ELSE {IF d = <<>> THEN b \o <<NL>> ELSE b \o Gap \o d :
          b \in Blocks, d \in DocsOfLen(n - 1)}

Docs == UNION {DocsOfLen(n) : n \in 0..MaxBlocks}

ConcDocs ==
  {<<>>, Err, Fence("md", Err) \o <<NL>>, Fence("MD", Html),
   Fence("md", Thrown) \o Gap \o Nest(2)}

Inputs(s) == IF s = "seq" THEN Docs ELSE ConcDocs

\* ------------------------------------------------------------------ state
VARIABLES
  variant,   \* the revision of normalizeMarkdown that runs
  scope,     \* "seq": one call at a time; "conc": calls interleave
  pc,        \* per call: idle, parsed, walking, walked, done, failed
  input,     \* per call: markdownText
  origin,    \* per call: the call whose result it was given, or 0
  treeOf,    \* per call: the tree object it holds, or 0
  heap,      \* tree object -> its nodes
  pos,       \* per call: the node the walk is at
  result,    \* per call: the string the promise resolved to
  failure,   \* per call: what the promise rejected with
  stderr,    \* console.error, in order: [call, line]; call 0 is the command line
  cur,       \* the call running synchronous code, or 0
  parsed,    \* per call: the tree as the parser built it
  events,    \* per call: the components invoked, in order
  cli,       \* the revision of the command line that runs
  args,      \* Deno.args
  tty,       \* Deno.stdin.isTerminal()
  cpc,       \* the command line: off, start, reading, normalizing, writing, exited
  src,       \* sourceText
  normalized,\* normalizedText
  exitCode,  \* the exit code of the process
  stdout,    \* console.log, in order
  written,   \* the texts written to the source file, in order
  reads,     \* how often the input was read
  normCalls, \* how often normalizeMarkdown was called
  cause      \* the stage that failed: none, read, normalize, write

cliVars == <<cli, args, tty, cpc, src, normalized, exitCode, stdout, written, reads,
             normCalls, cause>>

vars == <<variant, scope, pc, input, origin, treeOf, heap, pos, result, failure,
          stderr, cur, parsed, events, cliVars>>

Calls == 1..NumCalls

InitCalls ==
  /\ pc = [c \in Calls |-> "idle"]
  /\ input = [c \in Calls |-> <<>>]
  /\ origin = [c \in Calls |-> 0]
  /\ treeOf = [c \in Calls |-> 0]
  /\ heap = [o \in Calls |-> <<>>]
  /\ pos = [c \in Calls |-> 0]
  /\ result = [c \in Calls |-> <<>>]
  /\ failure = [c \in Calls |-> "none"]
  /\ stderr = <<>>
  /\ cur = 0
  /\ parsed = [c \in Calls |-> <<>>]
  /\ events = [c \in Calls |-> <<>>]

CliOff ==
  /\ cli = "none"
  /\ args = <<>>
  /\ tty = FALSE
  /\ cpc = "off"
  /\ src = <<>>
  /\ normalized = <<>>
  /\ exitCode = 0
  /\ stdout = <<>>
  /\ written = <<>>
  /\ reads = 0
  /\ normCalls = 0
  /\ cause = "none"

Init == variant \in Variants /\ scope = "seq" /\ InitCalls /\ CliOff
InitConc == variant \in Variants /\ scope = "conc" /\ InitCalls /\ CliOff

Event(op, node, ok) == [op |-> op, node |-> node, ok |-> ok]

\* Variation: one tree object at module level, used by every call.
SharedTree(held) == 1

\* The parser builds a new tree object on every call.
NewTree(held) == CHOOSE o \in Calls : o \notin held /\ \A k \in Calls : k \notin held => o <= k

\* normalizeMarkdown(t) up to the end of the parse.
Enter(c, t, from) ==
  /\ pc[c] = "idle"
  /\ cur = 0
  /\ \A d \in Calls : d < c => pc[d] # "idle"
  /\ scope = "seq" => \A d \in Calls : pc[d] \in {"idle", "done", "failed"}
  /\ input' = [input EXCEPT ![c] = t]
  /\ origin' = [origin EXCEPT ![c] = from]
  /\ IF EarlyReturn(variant, t)
     THEN /\ pc' = [pc EXCEPT ![c] = "done"]
          /\ result' = [result EXCEPT ![c] = <<>>]
          /\ UNCHANGED <<treeOf, heap, parsed, events, failure>>
     ELSE \E p \in {Parse(t)} : \E o \in {NewTree({treeOf[d] : d \in Calls})} :
             /\ events' = [events EXCEPT ![c] = Append(@, Event("parse", 0, p.ok))]
             /\ IF p.ok
                THEN /\ pc' = [pc EXCEPT ![c] = IF HasPlugin(variant) THEN "parsed" ELSE "walked"]
                     /\ treeOf' = [treeOf EXCEPT ![c] = o]
                     /\ heap' = [heap EXCEPT ![o] = p.tree]
                     /\ parsed' = [parsed EXCEPT ![c] = p.tree]
                     /\ UNCHANGED <<failure, result>>
                ELSE /\ pc' = [pc EXCEPT ![c] = "failed"]
                     /\ failure' = [failure EXCEPT ![c] = p.kind]
                     /\ UNCHANGED <<treeOf, heap, parsed, result>>
  /\ UNCHANGED <<variant, scope, pos, stderr, cur, cliVars>>

\* A caller passes a text of its own. In the "seq" scope only the first call
\* does; the later ones are given an earlier result.
Call(c) ==
  /\ scope = "seq" => \A d \in Calls : pc[d] = "idle"
  /\ \E t \in Inputs(scope) : Enter(c, t, 0)

\* A caller passes what an earlier call returned.
Renormalize(c) ==
  \E d \in Calls : d # c /\ pc[d] = "done" /\ Enter(c, result[d], d)

\* When each step of a call under way can be taken: synchronous code runs
\* to its end before another call goes on.
CanStartWalk(c) == pc[c] = "parsed" /\ cur = 0
CanVisit(c) == pc[c] = "walking" /\ cur = c /\ pos[c] <= Len(heap[treeOf[c]])
CanEndWalk(c) == pc[c] = "walking" /\ cur = c /\ pos[c] > Len(heap[treeOf[c]])
CanReturn(c) == pc[c] = "walked" /\ cur = 0

\* The transformer starts: visit(tree, 'code', ...).
StartWalk(c) ==
  /\ CanStartWalk(c)
  /\ pc' = [pc EXCEPT ![c] = "walking"]
  /\ pos' = [pos EXCEPT ![c] = NextCode(heap[treeOf[c]], 1)]
  /\ cur' = c
  /\ events' = [events EXCEPT ![c] = Append(@, Event("walk", 0, TRUE))]
  /\ UNCHANGED <<variant, scope, input, origin, treeOf, heap, result, failure,
                 stderr, parsed, cliVars>>

\* The callback runs on the code node the walk is at. What it does not
\* catch ends the walk and rejects the promise.
Visit(c) ==
  /\ CanVisit(c)
  /\ \E o \in {treeOf[c]} : \E i \in {pos[c]} :
     \E r \in {Visitor(variant, heap[treeOf[c]][pos[c]])} :
        /\ events' = [events EXCEPT ![c] =
                        Append(@, Event("visit", i, TRUE))
                        \o (IF r.called THEN <<Event("format", i, r.ok)>> ELSE <<>>)]
        /\ stderr' = stderr \o [k \in 1..Len(r.diag) |-> [call |-> c, line |-> r.diag[k]]]
        /\ heap' = [heap EXCEPT ![o][i] = r.node]
        /\ IF r.thrown = "none"
           THEN /\ pos' = [pos EXCEPT ![c] = NextCode(heap[o], i + 1)]
                /\ UNCHANGED <<pc, failure, cur>>
           ELSE /\ pc' = [pc EXCEPT ![c] = "failed"]
                /\ failure' = [failure EXCEPT ![c] = r.thrown]
                /\ cur' = 0
                /\ UNCHANGED pos
  /\ UNCHANGED <<variant, scope, input, origin, treeOf, result, parsed, cliVars>>

\* The walk has passed the last code node.
EndWalk(c) ==
  /\ CanEndWalk(c)
  /\ pc' = [pc EXCEPT ![c] = "walked"]
  /\ cur' = 0
  /\ UNCHANGED <<variant, scope, input, origin, treeOf, heap, pos, result, failure,
                 stderr, parsed, events, cliVars>>

\* The compiler renders the tree and the promise resolves: file.toString().
Return(c) ==
  /\ CanReturn(c)
  /\ pc' = [pc EXCEPT ![c] = "done"]
  /\ result' = [result EXCEPT ![c] = Stringify(heap[treeOf[c]])]
  /\ events' = [events EXCEPT ![c] = Append(@, Event("stringify", 0, TRUE))]
  /\ UNCHANGED <<variant, scope, input, origin, treeOf, heap, pos, failure, stderr,
                 cur, parsed, cliVars>>

Next ==
  \E c \in Calls :
    \/ Call(c)
    \/ Renormalize(c)
    \/ StartWalk(c)
    \/ Visit(c)
    \/ EndWalk(c)
    \/ Return(c)

Spec == Init /\ [][Next]_vars
SpecConc == InitConc /\ [][Next]_vars

\* ------------------------------------------------------------------ command line
\* "main.ts"   src/main.ts (a file argument is required)
\* "part_002"  src/unnamed/part_002 (standard input when no file is given)
Clis == {"main.ts", "part_002"}

MaxArgs == 2
ArgTokens == {"-w", "--write", "-h", "--help", "f.md"}
NoPath == "<undefined>"

RECURSIVE ArgLists(_)
ArgLists(n) ==
  IF n = 0 THEN {<<>>}
  ELSE ArgLists(n - 1) \cup {Append(a, x) : a \in {b \in ArgLists(n - 1) : Len(b) = n - 1},
                                            x \in ArgTokens}

\* arg.startsWith('-')
StartsWithDash(arg) == arg \in {"-w", "--write", "-h", "--help"}

\* parseArgs: the flags, and the first argument that is no flag.
ParseArgs(a) ==
  LET files == {i \in 1..Len(a) : ~StartsWithDash(a[i])}
  IN [shouldWrite |-> \E i \in 1..Len(a) : a[i] \in {"--write", "-w"},
      showHelp |-> \E i \in 1..Len(a) : a[i] \in {"--help", "-h"},
      filePath |-> IF files = {} THEN NoPath
                   ELSE a[CHOOSE i \in files : \A k \in files : i <= k]]

\* Deno.exit(1) in die, and the exit code of an uncaught rejection.
FailureExit == 1

\* Variation: the --write/stdin check is missing.
StartUnchecked(a, terminal) ==
  IF ParseArgs(a).showHelp \/ (Len(a) = 0 /\ terminal) THEN "help" ELSE "read"

\* The head of main in part_002: help, the --write/stdin check, or go on.
StartPart002(a, terminal) ==
  LET p == ParseArgs(a)
  IN IF p.showHelp \/ (Len(a) = 0 /\ terminal) THEN "help"
     ELSE IF p.shouldWrite /\ p.filePath = NoPath THEN "die"
     ELSE "read"

\* The head of main in main.ts: help, the missing-file check, or go on.
StartMainTs(a, terminal) ==
  LET p == ParseArgs(a)
  IN IF p.showHelp \/ Len(a) = 0 THEN "help"
     ELSE IF p.filePath = NoPath THEN "die"
     ELSE "read"

Start(c, a, terminal) ==
  IF c = "part_002" THEN StartPart002(a, terminal) ELSE StartMainTs(a, terminal)

\* What a failure of a stage prints on standard error before the process
\* ends with FailureExit: a message of die, or the runtime's report of an
\* uncaught rejection (main.ts rethrows what it does not know).
FailureLine(c, stage, kind) ==
  IF c = "part_002"
  THEN CASE kind = "NotFound" -> "Error: File not found"
         [] kind = "PermissionDenied" -> "Error: Permission denied"
         [] kind = "Error" -> "An unexpected error occurred"
         [] OTHER -> "An unknown error occurred"
  ELSE CASE stage = "read" /\ kind = "NotFound" -> "Error: File not found"
         [] stage \in {"read", "write"} /\ kind = "PermissionDenied" ->
              "Error: Permission denied"
         [] OTHER -> "error: Uncaught (in promise)"

\* handleOutput / the tail of main: the file is written when --write is set.
WritesFile(c, a) ==
  LET p == ParseArgs(a)
  IN IF c = "part_002" THEN p.shouldWrite /\ p.filePath # NoPath ELSE p.shouldWrite

Line(text) == [call |-> 0, line |-> [text |-> text, message |-> ""]]

Fail(stage, kind) ==
  /\ cpc' = "exited"
  /\ exitCode' = FailureExit
  /\ cause' = stage
  /\ stderr' = Append(stderr, Line(FailureLine(cli, stage, kind)))

InitCli ==
  /\ variant \in Variants
  /\ scope = "cli"
  /\ InitCalls
  /\ cli \in Clis
  /\ args \in ArgLists(MaxArgs)
  /\ tty \in BOOLEAN
  /\ cpc = "start"
  /\ src = <<>>
  /\ normalized = <<>>
  /\ exitCode = 0
  /\ stdout = <<>>
  /\ written = <<>>
  /\ reads = 0
  /\ normCalls = 0
  /\ cause = "none"

callVars == <<variant, scope, pc, input, origin, treeOf, heap, pos, result, failure,
              cur, parsed, events>>

\* main up to the first await: help, a die, or on to the read.
CliStart ==
  /\ cpc = "start"
  /\ LET d == Start(cli, args, tty)
     IN CASE d = "help" ->
               /\ stdout' = Append(stdout, <<"HELP">>)
               /\ cpc' = "exited"
               /\ UNCHANGED <<exitCode, cause, stderr>>
          [] d = "die" ->
               /\ cpc' = "exited"
               /\ exitCode' = FailureExit
               /\ stderr' = Append(stderr, Line("Error: usage"))
               /\ UNCHANGED <<stdout, cause>>
          [] OTHER ->
               /\ cpc' = "reading"
               /\ UNCHANGED <<exitCode, cause, stderr, stdout>>
  /\ UNCHANGED <<callVars, cli, args, tty, src, normalized, written, reads, normCalls>>

\* getSourceText / Deno.readTextFile: the text, or the failure of the read.
CliRead ==
  /\ cpc = "reading"
  /\ reads' = reads + 1
  /\ \/ \E t \in ConcDocs :
          /\ src' = t
          /\ cpc' = "normalizing"
          /\ UNCHANGED <<exitCode, cause, stderr>>
     \/ \E kind \in {"NotFound", "PermissionDenied", "Error", "NonError"} :
          /\ Fail("read", kind)
          /\ UNCHANGED src
  /\ UNCHANGED <<callVars, cli, args, tty, normalized, stdout, written, normCalls>>

\* await normalizeMarkdown(sourceText)
CliNormalize ==
  /\ cpc = "normalizing"
  /\ normCalls' = normCalls + 1
  /\ \E r \in {Normalize(variant, src)} :
     \E logged \in {stderr \o [k \in 1..Len(r.diags) |-> [call |-> 0, line |-> r.diags[k]]]} :
        IF r.ok
        THEN /\ normalized' = r.text
             /\ cpc' = "writing"
             /\ stderr' = logged
             /\ UNCHANGED <<exitCode, cause>>
        ELSE /\ cpc' = "exited"
             /\ exitCode' = FailureExit
             /\ cause' = "normalize"
             /\ stderr' = Append(logged, Line(FailureLine(cli, "normalize", r.kind)))
             /\ UNCHANGED normalized
  /\ UNCHANGED <<callVars, cli, args, tty, src, stdout, written, reads>>

\* handleOutput: the file and a report, or the text on standard output.
CliOutput ==
  /\ cpc = "writing"
  /\ IF WritesFile(cli, args)
     THEN \/ /\ written' = Append(written, normalized)
             /\ stdout' = Append(stdout, <<"Formatted", ParseArgs(args).filePath>>)
             /\ cpc' = "exited"
             /\ UNCHANGED <<exitCode, cause, stderr>>
          \/ \E kind \in {"PermissionDenied", "Error"} :
               /\ Fail("write", kind)
               /\ UNCHANGED <<written, stdout>>
     ELSE /\ stdout' = Append(stdout, normalized)
          /\ cpc' = "exited"
          /\ UNCHANGED <<exitCode, cause, stderr, written>>
  /\ UNCHANGED <<callVars, cli, args, tty, src, normalized, reads, normCalls>>

NextCli == CliStart \/ CliRead \/ CliNormalize \/ CliOutput

SpecCli == InitCli /\ [][NextCli]_vars

\* ------------------------------------------------------------------ properties
TreeNow(c) == heap[treeOf[c]]
CodeNodes(c) == {i \in 1..Len(parsed[c]) : parsed[c][i].type = "code"}
Count(c, op, i) ==
  Cardinality({k \in 1..Len(events[c]) : events[c][k].op = op /\ events[c][k].node = i})
FormatFailed(c, i) == \E k \in 1..Len(events[c]) : events[c][k] = Event("format", i, FALSE)
FormatSucceeded(c, i) == \E k \in 1..Len(events[c]) : events[c][k] = Event("format", i, TRUE)
InWalk(c) == pc[c] \in {"parsed", "walking", "walked"}
CanStep(c) == CanStartWalk(c) \/ CanVisit(c) \/ CanEndWalk(c) \/ CanReturn(c)

\* What call c printed on the error channel, in order.
DiagsOf(c) ==
  LET mine == SelectSeq(stderr, LAMBDA e : e.call = c)
  IN [k \in 1..Len(mine) |-> mine[k].line]

\* The fenced blocks found in a block's content, in order.
InnerCodes(value) ==
  LET p == Parse(value)
  IN IF p.ok THEN SelectSeq(p.tree, LAMBDA n : n.type = "code") ELSE <<>>

Tokens(t) == {t[k] : k \in 1..Len(t)}

\* C1: when the formatter fails on a block, the call is not rejected and can
\* go on, the block is exactly as the parser built it, every other code block
\* is visited once and ends as the callback leaves it, failure or not, and
\* the call returns the rendering of that tree.
C1_FailureIsolated ==
  \A c \in Calls : \A i \in CodeNodes(c) :
    FormatFailed(c, i) =>
      /\ pc[c] # "failed" /\ failure[c] = "none"
      /\ TreeNow(c)[i] = parsed[c][i]
      /\ pc[c] \in {"walking", "walked"} => CanStep(c)
      /\ pc[c] \in {"walked", "done"} =>
           \A j \in CodeNodes(c) \ {i} :
             /\ Count(c, "visit", j) = 1
             /\ TreeNow(c)[j] = Visitor(variant, parsed[c][j]).node
      /\ pc[c] = "done" => result[c] = Stringify(TreeNow(c))

\* A call returned although an earlier block failed, and a later block was
\* reformatted all the same.
C1_Witness ==
  \E c \in Calls : \E i, j \in CodeNodes(c) :
    /\ pc[c] = "done"
    /\ i < j
    /\ FormatFailed(c, i)
    /\ FormatSucceeded(c, j)
    /\ TreeNow(c)[j].value # parsed[c][j].value
    /\ TreeNow(c)[i].value = parsed[c][i].value

\* The eligibility rule as the specification words it.
SpecEligible(node) ==
  /\ node.lang # NoLang
  /\ ToLowerCase(node.lang) \in {"markdown", "md"}
  /\ node.value # <<>>

\* C2: a code block is passed to the formatter if and only if its tag is
\* "markdown" or "md" in any letter case and its content is not empty; every
\* other code block keeps its content and causes no formatter call.
C2_Eligibility ==
  \A c \in Calls :
    (HasPlugin(variant) /\ pc[c] \in {"walked", "done"}) =>
      \A i \in CodeNodes(c) :
        /\ (Count(c, "format", i) > 0) <=> SpecEligible(parsed[c][i])
        /\ ~SpecEligible(parsed[c][i]) => TreeNow(c)[i] = parsed[c][i]

\* C3: a code block of the outer tree is visited and formatted at most once,
\* the fenced blocks inside a formatted block's content keep their tag and
\* content, and the call ends: its steps are bounded by the number of code
\* blocks and a call under way always has a step to take.
C3_TwoLevels ==
  \A c \in Calls :
    /\ \A i \in 1..Len(parsed[c]) :
         /\ Count(c, "visit", i) <= 1
         /\ Count(c, "format", i) <= 1
         /\ Count(c, "visit", i) = 1 => parsed[c][i].type = "code"
    /\ \A i \in CodeNodes(c) :
         FormatSucceeded(c, i) =>
           InnerCodes(TreeNow(c)[i].value) = InnerCodes(parsed[c][i].value)
    /\ Len(events[c]) <= 2 * Cardinality(CodeNodes(c)) + 3
    /\ InWalk(c) => CanStep(c)

\* A call returned a text in which the outer block's own list was rewritten
\* while the Markdown fence inside it still holds its list as written.
C3_Witness ==
  \E c \in Calls : \E i \in CodeNodes(c) :
    /\ pc[c] = "done"
    /\ FormatSucceeded(c, i)
    /\ "-" \in Tokens(TreeNow(c)[i].value)
    /\ \E k \in 1..Len(InnerCodes(TreeNow(c)[i].value)) :
         /\ InnerCodes(TreeNow(c)[i].value)[k].lang = "md"
         /\ "*" \in Tokens(InnerCodes(TreeNow(c)[i].value)[k].value)
         /\ "-" \notin Tokens(InnerCodes(TreeNow(c)[i].value)[k].value)

\* The diagnostics a call owes: one for each block of the parsed tree that
\* the revision formats and whose content the formatter rejects, in document
\* order, with the failure's message or "Unknown error".
ExpectedDiags(c) ==
  Concat([i \in 1..Len(parsed[c]) |->
    IF parsed[c][i].type = "code" /\ Targets(variant, parsed[c][i])
       /\ ~BaseProcessSync(parsed[c][i].value).ok
    THEN <<[text |-> "Failed to process nested markdown: ",
            message |-> IF BaseProcessSync(parsed[c][i].value).kind = "Error"
                        THEN "parse failure" ELSE "Unknown error"]>>
    ELSE <<>>])

\* C5: a call prints exactly one diagnostic for each block whose formatting
\* fails, in document order, none for any other block, with the failure's
\* message or "Unknown error"; the returned string holds no diagnostic text.
C5_Diagnostics ==
  \A c \in Calls :
    /\ Len(DiagsOf(c)) =
         Cardinality({i \in CodeNodes(c) : FormatFailed(c, i)})
    /\ pc[c] \in {"walked", "done"} => DiagsOf(c) = ExpectedDiags(c)
    /\ pc[c] = "done" =>
         \A k \in 1..Len(DiagsOf(c)) :
           Tokens(result[c]) \cap {DiagsOf(c)[k].text, DiagsOf(c)[k].message} = {}

\* A call returned after printing the message of an Error and then the
\* "Unknown error" of a thrown value that is no Error.
C5_Witness ==
  \E c \in Calls :
    /\ pc[c] = "done"
    /\ Len(DiagsOf(c)) = 2
    /\ DiagsOf(c)[1].message = "parse failure"
    /\ DiagsOf(c)[2].message = "Unknown error"
    /\ result[c] # <<>>

\* C10: a block whose formatting succeeds holds the formatter's output with
\* the trailing white space removed, and the walk changes nothing else: no
\* node is visited twice, and the number, the order, the kinds and the tags
\* of the nodes and everything but the content of formatted blocks stay.
C10_OnlyContentWritten ==
  \A c \in Calls :
    (pc[c] \in {"walked", "done"} /\ treeOf[c] # 0) =>
      /\ Len(TreeNow(c)) = Len(parsed[c])
      /\ \A i \in 1..Len(parsed[c]) :
           /\ Count(c, "visit", i) <= 1
           /\ TreeNow(c)[i] = [parsed[c][i] EXCEPT !.value = TreeNow(c)[i].value]
           /\ ~FormatSucceeded(c, i) => TreeNow(c)[i] = parsed[c][i]
           /\ FormatSucceeded(c, i) =>
                TreeNow(c)[i].value = TrimEnd(BaseProcessSync(parsed[c][i].value).text)

\* C4: a call given what an earlier call returned is not rejected and
\* returns its input: normalize(normalize(t)) = normalize(t).
C4_Idempotent ==
  \A c \in Calls :
    origin[c] # 0 =>
      /\ input[c] = result[origin[c]]
      /\ pc[c] # "failed"
      /\ pc[c] = "done" => result[c] = input[c]

\* A second pass returned over a text whose first pass kept a block that
\* failed and rewrote Markdown fences nested two deep.
C4_Witness ==
  \E c \in Calls :
    /\ pc[c] = "done"
    /\ origin[c] # 0
    /\ result[origin[c]] # input[origin[c]]
    /\ \E i \in CodeNodes(origin[c]) : FormatFailed(origin[c], i)
    /\ \E i \in CodeNodes(origin[c]) :
         /\ FormatSucceeded(origin[c], i)
         /\ InnerCodes(parsed[origin[c]][i].value) # <<>>
    /\ \E i \in CodeNodes(c) : FormatFailed(c, i)

\* C6: whatever the interleaving, a call returns (or rejects with) what it
\* does when run alone and prints the same diagnostics, and two calls never
\* hold the same tree.
C6_NoInterference ==
  \A c \in Calls :
    /\ pc[c] = "done" =>
         /\ Normalize(variant, input[c]).ok
         /\ result[c] = Normalize(variant, input[c]).text
         /\ DiagsOf(c) = Normalize(variant, input[c]).diags
    /\ pc[c] = "failed" =>
         /\ ~Normalize(variant, input[c]).ok
         /\ failure[c] = Normalize(variant, input[c]).kind
    /\ \A d \in Calls \ {c} : (treeOf[c] # 0 /\ treeOf[d] # 0) => treeOf[c] # treeOf[d]

\* The first call returned while the second, on another text, is under way,
\* and the second call's walk ran, and logged, before the first call's.
C6_Witness ==
  /\ pc[1] = "done"
  /\ pc[2] = "walked"
  /\ origin[2] = 0
  /\ input[1] # input[2]
  /\ DiagsOf(1) # <<>>
  /\ DiagsOf(2) # <<>>
  /\ stderr[1].call = 2

\* C7: normalize("") returns "" at once: no parser, walk, formatter or
\* renderer runs and nothing is logged.
C7_EmptyInput ==
  \A c \in Calls :
    (pc[c] # "idle" /\ input[c] = <<>>) =>
      /\ pc[c] = "done"
      /\ result[c] = <<>>
      /\ events[c] = <<>>
      /\ DiagsOf(c) = <<>>

\* C8: when the read fails, or the top-level parse inside normalize does,
\* the process ends with exit code 1 and a message of its own on standard
\* error, and nothing was written to standard output or to the file.
C8_FailurePropagates ==
  (cpc = "exited" /\ (cause = "read" \/ (normCalls = 1 /\ ~Parse(src).ok))) =>
    /\ exitCode = 1
    /\ stderr # <<>>
    /\ stderr[Len(stderr)].line.text \in
         {"Error: File not found", "Error: Permission denied",
          "An unexpected error occurred", "An unknown error occurred",
          "error: Uncaught (in promise)"}
    /\ stdout = <<>>
    /\ written = <<>>

\* The command line was run with --write on a file whose text does not
\* parse, and ended with exit code 1.
C8_Witness ==
  /\ cpc = "exited"
  /\ normCalls = 1
  /\ ~Parse(src).ok
  /\ WritesFile(cli, args)
  /\ exitCode = 1

\* C9: with --write, no file argument and no help flag nothing is ever read,
\* normalized or written and the process ends with exit code 1 and a
\* message; with a help flag nothing is ever read, normalized or written
\* and usage is what is printed.
C9_WriteNeedsFile ==
  /\ (ParseArgs(args).shouldWrite /\ ParseArgs(args).filePath = NoPath
      /\ ~ParseArgs(args).showHelp) =>
       /\ reads = 0 /\ normCalls = 0 /\ written = <<>> /\ stdout = <<>>
       /\ cpc \in {"start", "exited"}
       /\ cpc = "exited" => (exitCode = 1 /\ Len(stderr) = 1)
  /\ ParseArgs(args).showHelp =>
       /\ reads = 0 /\ normCalls = 0 /\ written = <<>> /\ stderr = <<>>
       /\ cpc \in {"start", "exited"}
       /\ cpc = "exited" => stdout = <<<<"HELP">>>>

\* The later revision of the command line was run with -w alone and ended
\* with exit code 1.
C9_Witness ==
  /\ cli = "part_002"
  /\ args = <<"-w">>
  /\ cpc = "exited"
  /\ exitCode = 1

====
